---- MODULE Spec2Model ----
(***************************************************************************)
(* _StandaloneJobDispatcher (taipy/core/_orchestrator/_dispatcher):        *)
(* a dispatcher thread ("D") that runs the driver loop and _dispatch, and  *)
(* the pool's manager thread ("M") that completes futures and runs their   *)
(* done-callbacks.  The two threads share _nb_available_workers and        *)
(* _dispatched_processes without a lock, so a read-modify-write of the     *)
(* counter is two steps (load, store) that interleave with the other       *)
(* thread's.                                                               *)
(***************************************************************************)
EXTENDS Integers, Sequences, FiniteSets, TLC

\* Bounds of the model.
NJobs == 3
MaxWorkers == 2

Jobs == 1..NJobs

\* What a worker returns: the list of exceptions raised by the task.
NoError == << >>
TaskError == << "exc" >>
Results == { NoError, TaskError }

VARIABLES
    max_workers,            \* Config.job_config.max_nb_of_workers or 1, the pool's size
    nb_available_workers,   \* self._nb_available_workers
    dispatched_processes,   \* keys of self._dispatched_processes (one future per job id)
    fut,                    \* fut[j]: state of the future submit() returned for job j
    result,                 \* result[j]: ft.result() once the future is finished
    done_callbacks,         \* done_callbacks[j]: future._done_callbacks, in registration order
    status,                 \* status[j]: job.status
    errors,                 \* errors[j]: the errors attached to the job
    thr,                    \* thr[t]: position, current job and loaded value of thread t
    jobs_to_run,            \* head of the FIFO queue of ready jobs: next job id to hand out
    stop_flag,              \* the shutdown signal
    released,               \* history: job j's _release_worker has stored its increment
    popped,                 \* history: job j's _update_job_status_from_future has run its pop
    withdrawn,              \* history: handles _remove_dispatched_job took out, until the job's own pop
    early,                  \* history: job j's worker finished before _dispatch(j) returned
    applied_config,         \* Config._applied_config, as the version of the global configuration
    config_as_string,       \* config_as_string[j]: the serialized configuration submitted with job j
    worker_config,          \* worker_config[j]: the configurations job j's worker has loaded (at most one)
    p_given,                \* the task list last handed to the Pipeline (constructor or setter)
    p_tasks,                \* Pipeline._tasks: config_id -> task
    is_consistent,          \* Pipeline.is_consistent
    p_sorted                \* what the last get_sorted_tasks() call returned or raised

\* The Pipeline's state.
pvars == << p_given, p_tasks, is_consistent, p_sorted >>

vars == << max_workers, nb_available_workers, dispatched_processes, fut, result, done_callbacks,
           status, errors, thr, jobs_to_run, stop_flag, released, popped, withdrawn, early,
           applied_config, config_as_string, worker_config, pvars >>

\* Bound on the changes of the global configuration.
MaxConfigChanges == 1

\* _TomlSerializer()._serialize / _deserialize: the configuration as a string.
Serialize(config) == << "toml", config >>
Deserialize(string) == string[2]

NoConfig == << >>

Threads == { "D", "M" }

\* Positions of the dispatcher thread inside _dispatch, before the callbacks.
InDispatch == { "dec_load", "dec_store", "submit", "set", "add_release", "add_update" }
\* Positions of a thread inside a done-callback.
InCallback == { "rel_load", "rel_store", "upd_pop", "upd_status" }

Terminal == { "COMPLETED", "FAILED" }

\* The dispatcher after __init__.
DispatcherInit ==
    /\ max_workers \in 1..MaxWorkers
    /\ nb_available_workers = max_workers
    /\ dispatched_processes = {}
    /\ fut = [j \in Jobs |-> "none"]
    /\ result = [j \in Jobs |-> NoError]
    /\ done_callbacks = [j \in Jobs |-> << >>]
    /\ status = [j \in Jobs |-> "PENDING"]
    /\ errors = [j \in Jobs |-> << >>]
    /\ thr = [t \in Threads |-> [pc |-> IF t = "D" THEN "loop" ELSE "idle", job |-> 0, tmp |-> 0]]
    /\ jobs_to_run = 1
    /\ stop_flag = FALSE
    /\ released = [j \in Jobs |-> FALSE]
    /\ popped = [j \in Jobs |-> FALSE]
    /\ withdrawn = {}
    /\ early = [j \in Jobs |-> FALSE]
    /\ applied_config = 0
    /\ config_as_string = [j \in Jobs |-> NoConfig]
    /\ worker_config = [j \in Jobs |-> NoConfig]

\* get_sorted_tasks() has not been called.
NotCalled == [state |-> "not_called", gens |-> << >>]

\* No Pipeline is under consideration.
NoPipeline ==
    /\ p_given = << >>
    /\ p_tasks = << >>
    /\ is_consistent = TRUE
    /\ p_sorted = NotCalled

Init == DispatcherInit /\ NoPipeline

\* A gate that lets one job too many through.
can_execute_off_by_one == nb_available_workers >= 0

\* A gate that keeps the last free slot closed.
can_execute_strict == nb_available_workers > 1

\* _can_execute, line 40.
can_execute == nb_available_workers > 0

\* A manager thread that runs only the first registered callback.
AfterRelease_first_only(t, j) == IF t = "D" THEN "add_update" ELSE "idle"

\* Where a thread goes when the callback it runs returns.
\* D runs a callback inline from add_done_callback and goes on with _dispatch;
\* M runs the callbacks registered when the future finished, in order.
AfterRelease(t, j) ==
    IF t = "D" THEN "add_update"
    ELSE IF Len(done_callbacks[j]) >= 2 THEN "upd_pop" ELSE "idle"

AfterUpdate(t) == IF t = "D" THEN "loop" ELSE "idle"

Goto(t, p) == thr' = [thr EXCEPT ![t].pc = p]

----
\* The driver loop: take the next ready job while can_execute() holds.
DriverTake ==
    /\ thr["D"].pc = "loop"
    /\ ~stop_flag
    /\ can_execute
    /\ jobs_to_run <= NJobs
    /\ thr' = [thr EXCEPT !["D"] = [pc |-> "dec_load", job |-> jobs_to_run, tmp |-> 0]]
    /\ jobs_to_run' = jobs_to_run + 1
    /\ UNCHANGED << pvars, applied_config, config_as_string, worker_config, max_workers, nb_available_workers, dispatched_processes, fut, result, done_callbacks,
                    status, errors, stop_flag, released, popped, withdrawn, early >>

\* _dispatch, line 54: self._nb_available_workers -= 1 (load, then store).
DispatchLoad ==
    /\ thr["D"].pc = "dec_load"
    /\ thr' = [thr EXCEPT !["D"].pc = "dec_store", !["D"].tmp = nb_available_workers]
    /\ UNCHANGED << pvars, applied_config, config_as_string, worker_config, max_workers, nb_available_workers, dispatched_processes, fut, result, done_callbacks,
                    status, errors, jobs_to_run, stop_flag, released, popped, withdrawn, early >>

DispatchStore ==
    /\ thr["D"].pc = "dec_store"
    /\ nb_available_workers' = thr["D"].tmp - 1
    /\ Goto("D", "submit")
    /\ UNCHANGED << pvars, applied_config, config_as_string, worker_config, max_workers, dispatched_processes, fut, result, done_callbacks,
                    status, errors, jobs_to_run, stop_flag, released, popped, withdrawn, early >>

\* _dispatch, lines 55-56: the configuration is serialized and the executor
\* accepts the work item with the string as its argument.
SubmitOk ==
    /\ thr["D"].pc = "submit"
    /\ fut' = [fut EXCEPT ![thr["D"].job] = "queued"]
    /\ config_as_string' = [config_as_string EXCEPT ![thr["D"].job] = Serialize(applied_config)]
    /\ Goto("D", "set")
    /\ UNCHANGED << pvars, applied_config, worker_config, max_workers, nb_available_workers, dispatched_processes, result, done_callbacks,
                    status, errors, jobs_to_run, stop_flag, released, popped, withdrawn, early >>

\* _dispatch, lines 55-56: submit() raises; the exception leaves _dispatch.
SubmitRaises ==
    /\ thr["D"].pc = "submit"
    /\ fut' = [fut EXCEPT ![thr["D"].job] = "rejected"]
    /\ Goto("D", "loop")
    /\ UNCHANGED << pvars, applied_config, config_as_string, worker_config, max_workers, nb_available_workers, dispatched_processes, result, done_callbacks,
                    status, errors, jobs_to_run, stop_flag, released, popped, withdrawn, early >>

\* A registration that replaces the table instead of adding to it.
set_dispatched_processes_replace(table, job_id) == { job_id }

\* _set_dispatched_processes, line 64: self._dispatched_processes[job_id] = process.
set_dispatched_processes(table, job_id) == table \cup { job_id }

\* _dispatch, line 58.
SetDispatched ==
    /\ thr["D"].pc = "set"
    /\ dispatched_processes' = set_dispatched_processes(dispatched_processes, thr["D"].job)
    /\ Goto("D", "add_release")
    /\ UNCHANGED << pvars, applied_config, config_as_string, worker_config, max_workers, nb_available_workers, fut, result, done_callbacks,
                    status, errors, jobs_to_run, stop_flag, released, popped, withdrawn, early >>

\* Future.add_done_callback: a finished future runs the callback at once in the
\* calling thread, any other appends it to the callbacks the finishing thread runs.
AddReleaseCallback ==
    /\ thr["D"].pc = "add_release"
    /\ LET j == thr["D"].job IN
        IF fut[j] = "finished"
        THEN /\ Goto("D", "rel_load")
             /\ UNCHANGED done_callbacks
        ELSE /\ done_callbacks' = [done_callbacks EXCEPT ![j] = Append(@, "release")]
             /\ Goto("D", "add_update")
    /\ UNCHANGED << pvars, applied_config, config_as_string, worker_config, max_workers, nb_available_workers, dispatched_processes, fut, result,
                    status, errors, jobs_to_run, stop_flag, released, popped, withdrawn, early >>

AddUpdateCallback ==
    /\ thr["D"].pc = "add_update"
    /\ LET j == thr["D"].job IN
        IF fut[j] = "finished"
        THEN /\ Goto("D", "upd_pop")
             /\ UNCHANGED done_callbacks
        ELSE /\ done_callbacks' = [done_callbacks EXCEPT ![j] = Append(@, "update")]
             /\ Goto("D", "loop")
    /\ UNCHANGED << pvars, applied_config, config_as_string, worker_config, max_workers, nb_available_workers, dispatched_processes, fut, result,
                    status, errors, jobs_to_run, stop_flag, released, popped, withdrawn, early >>

----
\* ProcessPoolExecutor(max_workers=max_workers): the number of worker processes.
PoolWorkers == max_workers

Running == { j \in Jobs : fut[j] = "running" }
Queued == { j \in Jobs : fut[j] = "queued" }

\* A worker that reads the global configuration when it starts.
config_for_worker_global(j) == Serialize(applied_config)

\* _dispatch, line 56: the worker is called with config_as_string=config_as_string.
config_for_worker(j) == config_as_string[j]

\* A free worker process takes the oldest queued work item and applies the
\* configuration it was called with.
WorkerStart(j) ==
    /\ fut[j] = "queued"
    /\ \A k \in Queued : j <= k
    /\ Cardinality(Running) < PoolWorkers
    /\ fut' = [fut EXCEPT ![j] = "running"]
    /\ worker_config' = [worker_config EXCEPT ![j] = << Deserialize(config_for_worker(j)) >>]
    /\ UNCHANGED << pvars, applied_config, config_as_string, max_workers, nb_available_workers, dispatched_processes, result, done_callbacks, status,
                    errors, thr, jobs_to_run, stop_flag, released, popped, withdrawn, early >>

\* The manager thread receives job j's result and finishes the future
\* (Future.set_result); it then runs the callbacks registered so far, in order.
\* The submitted call, its configuration string with it, is dropped with the
\* finished work item.
Finish(j, r) ==
    /\ thr["M"].pc = "idle"
    /\ fut[j] = "running"
    /\ fut' = [fut EXCEPT ![j] = "finished"]
    /\ result' = [result EXCEPT ![j] = r]
    /\ thr' = [thr EXCEPT !["M"] = [pc |-> IF done_callbacks[j] = << >> THEN "idle" ELSE "rel_load",
                                    job |-> j, tmp |-> 0]]
    /\ early' = [early EXCEPT ![j] = thr["D"].job = j /\ thr["D"].pc \in InDispatch]
    /\ config_as_string' = [config_as_string EXCEPT ![j] = NoConfig]
    /\ worker_config' = [worker_config EXCEPT ![j] = NoConfig]
    /\ UNCHANGED << pvars, applied_config, max_workers, nb_available_workers, dispatched_processes, done_callbacks, status,
                    errors, jobs_to_run, stop_flag, released, popped, withdrawn >>

\* _release_worker, line 67: self._nb_available_workers += 1 (load, then store).
ReleaseLoad(t) ==
    /\ thr[t].pc = "rel_load"
    /\ thr' = [thr EXCEPT ![t].pc = "rel_store", ![t].tmp = nb_available_workers]
    /\ UNCHANGED << pvars, applied_config, config_as_string, worker_config, max_workers, nb_available_workers, dispatched_processes, fut, result, done_callbacks,
                    status, errors, jobs_to_run, stop_flag, released, popped, withdrawn, early >>

ReleaseStore(t) ==
    /\ thr[t].pc = "rel_store"
    /\ nb_available_workers' = thr[t].tmp + 1
    /\ released' = [released EXCEPT ![thr[t].job] = TRUE]
    /\ Goto(t, AfterRelease(t, thr[t].job))
    /\ UNCHANGED << pvars, applied_config, config_as_string, worker_config, max_workers, dispatched_processes, fut, result, done_callbacks,
                    status, errors, jobs_to_run, stop_flag, popped, withdrawn, early >>

\* A pop that leaves the entry in the table.
pop_dispatched_process_keep(table, job_id) == table

\* A pop that empties the table.
pop_dispatched_process_clear(table, job_id) == { }

\* _pop_dispatched_process, line 74: dict.pop(job_id, default).
pop_dispatched_process(table, job_id) == table \ { job_id }

\* _update_job_status_from_future, line 70.
UpdatePop(t) ==
    /\ thr[t].pc = "upd_pop"
    /\ LET j == thr[t].job IN
        /\ dispatched_processes' = pop_dispatched_process(dispatched_processes, j)
        /\ withdrawn' = withdrawn \ { j }
        /\ popped' = [popped EXCEPT ![j] = TRUE]
    /\ Goto(t, "upd_status")
    /\ UNCHANGED << pvars, applied_config, config_as_string, worker_config, max_workers, nb_available_workers, fut, result, done_callbacks,
                    status, errors, jobs_to_run, stop_flag, released, early >>

\* _update_job_status(job, exceptions): FAILED with the exceptions attached
\* when there are any, COMPLETED otherwise.
StatusFor(exceptions) == IF exceptions # NoError THEN "FAILED" ELSE "COMPLETED"

update_job_status(st, j, exceptions) == [st EXCEPT ![j] = StatusFor(exceptions)]

\* _update_job_status_from_future, line 71.
UpdateStatus(t) ==
    /\ thr[t].pc = "upd_status"
    /\ LET j == thr[t].job IN
        /\ status' = update_job_status(status, j, result[j])
        /\ errors' = [errors EXCEPT ![j] = result[j]]
    /\ Goto(t, AfterUpdate(t))
    /\ UNCHANGED << pvars, applied_config, config_as_string, worker_config, max_workers, nb_available_workers, dispatched_processes, fut, result, done_callbacks,
                    jobs_to_run, stop_flag, released, popped, withdrawn, early >>

\* _remove_dispatched_job, lines 79-80, called from the orchestrator's thread
\* with any job id, dispatched or not.
RemoveDispatchedJob(j) ==
    /\ dispatched_processes' = pop_dispatched_process(dispatched_processes, j)
    /\ withdrawn' = IF j \in dispatched_processes THEN withdrawn \cup { j } ELSE withdrawn
    /\ UNCHANGED << pvars, applied_config, config_as_string, worker_config, max_workers, nb_available_workers, fut, result, done_callbacks, status, errors,
                    thr, jobs_to_run, stop_flag, released, popped, early >>

----
\* The shutdown signal.
Stop ==
    /\ ~stop_flag
    /\ stop_flag' = TRUE
    /\ UNCHANGED << pvars, applied_config, config_as_string, worker_config, max_workers, nb_available_workers, dispatched_processes, fut, result, done_callbacks,
                    status, errors, thr, jobs_to_run, released, popped, withdrawn, early >>

\* The driver loop sees the signal and leaves; run() reaches the end of its
\* with-block (line 43).
DriverStop ==
    /\ thr["D"].pc = "loop"
    /\ stop_flag
    /\ Goto("D", "closing")
    /\ UNCHANGED << pvars, applied_config, config_as_string, worker_config, max_workers, nb_available_workers, dispatched_processes, fut, result, done_callbacks,
                    status, errors, jobs_to_run, stop_flag, released, popped, withdrawn, early >>

\* A shutdown that does not wait: shutdown(wait=False).
PoolDrained_nowait == TRUE

\* Executor.__exit__ is shutdown(wait=True): it joins the manager thread, which
\* ends once every submitted work item is finished and its callbacks have run.
PoolDrained ==
    /\ thr["M"].pc = "idle"
    /\ \A j \in Jobs : fut[j] \notin { "queued", "running" }

\* run(), lines 43-45: the with-block is left and run() returns.
RunReturns ==
    /\ thr["D"].pc = "closing"
    /\ PoolDrained
    /\ Goto("D", "returned")
    /\ UNCHANGED << pvars, applied_config, config_as_string, worker_config, max_workers, nb_available_workers, dispatched_processes, fut, result, done_callbacks,
                    status, errors, jobs_to_run, stop_flag, released, popped, withdrawn, early >>

----
Next ==
    \/ DriverTake
    \/ DispatchLoad
    \/ DispatchStore
    \/ SubmitOk
    \/ SubmitRaises
    \/ SetDispatched
    \/ AddReleaseCallback
    \/ AddUpdateCallback
    \/ \E j \in Jobs : WorkerStart(j)
    \/ \E j \in Jobs, r \in Results : Finish(j, r)
    \/ \E t \in Threads : ReleaseLoad(t)
    \/ \E t \in Threads : ReleaseStore(t)
    \/ \E t \in Threads : UpdatePop(t)
    \/ \E t \in Threads : UpdateStatus(t)
    \/ \E j \in Jobs : RemoveDispatchedJob(j)
    \/ Stop
    \/ DriverStop
    \/ RunReturns

Spec == Init /\ [][Next]_vars

TypeOK ==
    /\ max_workers \in 1..MaxWorkers
    /\ nb_available_workers \in Int
    /\ dispatched_processes \subseteq Jobs
    /\ fut \in [Jobs -> { "none", "queued", "running", "finished", "rejected" }]
    /\ status \in [Jobs -> { "PENDING" } \cup Terminal]

----
(***************************************************************************)
(* Pipeline (taipy/core/pipeline/pipeline.py): the graph built from the    *)
(* tasks, the is_consistent flag and get_sorted_tasks().  A DataNode is a  *)
(* node named by its id, a Task a node named by its config_id; a task is   *)
(* its config_id with the DataNodes of its input and of its output.        *)
(***************************************************************************)
\* Bound on the number of tasks handed to a Pipeline.
NTasks == 2
\* Bound on the number of tasks handed to a Pipeline whose tasks are replaced.
MaxSetLen == 1

DataNodes == { "a", "b" }
TaskNames == << "t1", "t2", "t3", "t4" >>
ConfigIds == { TaskNames[i] : i \in 1..NTasks }

TaskValues == [config_id : ConfigIds, input : SUBSET DataNodes, output : SUBSET DataNodes]
TaskLists(n) == UNION { [1..k -> TaskValues] : k \in 0..n }

IsDataNode(node) == node \in DataNodes
IsTask(node) == node \in ConfigIds

\* dvars: the dispatcher's state, which no Pipeline operation touches.
dvars == << max_workers, nb_available_workers, dispatched_processes, fut, result, done_callbacks,
            status, errors, thr, jobs_to_run, stop_flag, released, popped, withdrawn, early,
            applied_config, config_as_string, worker_config >>

\* __init__ line 47 and the tasks setter, line 82:
\* {task.config_id: task for task in tasks}; a later task replaces an earlier
\* one with the same config_id.
RECURSIVE tasks_dict(_)
tasks_dict(tasks) ==
    IF tasks = << >> THEN [c \in {} |-> [input |-> {}, output |-> {}]]
    ELSE LET n == Len(tasks)
             before == tasks_dict(SubSeq(tasks, 1, n - 1))
             last == tasks[n]
         IN [c \in DOMAIN before \cup { last.config_id } |->
                IF c = last.config_id THEN [input |-> last.input, output |-> last.output]
                ELSE before[c]]

EmptyGraph == [nodes |-> {}, edges |-> {}]

\* A loop body that turns the output edges round.
add_task_reversed(graph, c, task) ==
    [nodes |-> graph.nodes \cup { c } \cup task.input \cup task.output,
     edges |-> graph.edges \cup { << d, c >> : d \in task.input }
                           \cup { << d, c >> : d \in task.output }]

\* A loop body that leaves out a task with neither input nor output.
add_task_no_isolated(graph, c, task) ==
    [nodes |-> graph.nodes \cup task.input \cup task.output
                  \cup (IF task.input \cup task.output = {} THEN {} ELSE { c }),
     edges |-> graph.edges \cup { << d, c >> : d \in task.input }
                           \cup { << c, d >> : d \in task.output }]

\* __build_dag, lines 146-153: the body of the loop, for the task with config_id c.
add_task(graph, c, task) ==
    LET g1 == IF task.input # {}
              THEN [nodes |-> graph.nodes \cup task.input \cup { c },
                    edges |-> graph.edges \cup { << d, c >> : d \in task.input }]
              ELSE graph
        g2 == IF task.output # {}
              THEN [nodes |-> g1.nodes \cup { c } \cup task.output,
                    edges |-> g1.edges \cup { << c, d >> : d \in task.output }]
              ELSE g1
    IN IF task.input = {} /\ task.output = {}
       THEN [g2 EXCEPT !.nodes = @ \cup { c }]
       ELSE g2

RECURSIVE build_from(_, _, _)
build_from(tdict, todo, graph) ==
    IF todo = {} THEN graph
    ELSE LET c == CHOOSE k \in todo : TRUE
         IN build_from(tdict, todo \ { c }, add_task(graph, c, tdict[c]))

\* __build_dag, lines 143-154.
build_dag(tdict) == build_from(tdict, DOMAIN tdict, EmptyGraph)

\* networkx.topological_generations: the nodes with no predecessor left form
\* a generation and are removed; nodes left over when no such node exists are
\* on a cycle (NetworkXUnfeasible).
RECURSIVE generations_from(_, _, _)
generations_from(graph, remaining, gens) ==
    LET zero == { n \in remaining :
                    ~ \E e \in graph.edges : e[2] = n /\ e[1] \in remaining }
    IN IF zero = {}
       THEN [gens |-> gens, feasible |-> remaining = {}]
       ELSE generations_from(graph, remaining \ zero, Append(gens, zero))

\* A sort that puts every node in one generation.
topological_generations_single(graph) == [gens |-> << graph.nodes >>, feasible |-> TRUE]

\* networkx.topological_generations: each generation holds the nodes whose
\* predecessors are all in earlier generations; not feasible on a cycle.
topological_generations(graph) == generations_from(graph, graph.nodes, << >>)

\* networkx.is_directed_acyclic_graph: a topological order exists.
is_directed_acyclic_graph(graph) == topological_generations(graph).feasible

\* __is_consistent, lines 133-141: the generations alternate, DataNodes first.
RECURSIVE alternates(_, _)
alternates(gens, is_data_node) ==
    IF gens = << >> THEN TRUE
    ELSE IF \E node \in Head(gens) :
                \/ is_data_node /\ ~IsDataNode(node)
                \/ ~is_data_node /\ ~IsTask(node)
         THEN FALSE
         ELSE alternates(Tail(gens), ~is_data_node)

\* A validator without the acyclicity test of line 131.
compute_is_consistent_no_cycle_check(tdict) ==
    alternates(topological_generations(build_dag(tdict)).gens, TRUE)

\* A validator without the alternation loop of lines 134-140.
compute_is_consistent_acyclic_only(tdict) == is_directed_acyclic_graph(build_dag(tdict))

\* __is_consistent, lines 129-141.
compute_is_consistent(tdict) ==
    LET dag == build_dag(tdict)
    IN IF ~is_directed_acyclic_graph(dag) THEN FALSE
       ELSE alternates(topological_generations(dag).gens, TRUE)

\* A filter that keeps a generation only when all of its nodes are tasks.
HasTask_only_tasks(nodes) == \A node \in nodes : IsTask(node)

\* get_sorted_tasks, line 176: the test that keeps a generation.
HasTask(nodes) == \E node \in nodes : IsTask(node)

\* get_sorted_tasks, lines 174-176: the kept generations, or the exception
\* topological_generations raises on a cycle.
get_sorted_tasks(tdict) ==
    LET tg == topological_generations(build_dag(tdict))
    IN IF tg.feasible
       THEN [state |-> "returned", gens |-> SelectSeq(tg.gens, HasTask)]
       ELSE [state |-> "raised", gens |-> << >>]

\* Pipeline.__init__, lines 46-53, for a task list of at most n tasks.
PipelineInit(n) ==
    /\ p_given \in TaskLists(n)
    /\ p_tasks = tasks_dict(p_given)
    /\ is_consistent = compute_is_consistent(tasks_dict(p_given))
    /\ p_sorted = NotCalled

GetSortedTasks ==
    /\ p_sorted.state = "not_called"
    /\ p_sorted' = get_sorted_tasks(p_tasks)
    /\ UNCHANGED << dvars, p_given, p_tasks, is_consistent >>

\* A setter that validates the new tasks again.
tasks_setter_flag_recomputed(val) == compute_is_consistent(tasks_dict(val))

\* The tasks setter, lines 79-82, assigns _tasks only: the flag it leaves behind.
tasks_setter_flag(val) == is_consistent

SetTasks(val) ==
    /\ p_given' = val
    /\ p_tasks' = tasks_dict(val)
    /\ is_consistent' = tasks_setter_flag(val)
    /\ p_sorted' = NotCalled
    /\ UNCHANGED dvars

PipeNext == GetSortedTasks

\* The pipeline alone, next to a dispatcher that stays as constructed.
PipeInit == DispatcherInit /\ max_workers = 1 /\ PipelineInit(NTasks)

PipeSpec == PipeInit /\ [][PipeNext]_vars

SetterNext ==
    \/ GetSortedTasks
    \/ \E val \in TaskLists(MaxSetLen) : SetTasks(val)

SetterInit == DispatcherInit /\ max_workers = 1 /\ PipelineInit(MaxSetLen)

SetterSpec == SetterInit /\ [][SetterNext]_vars

----
\* Job j's handle has been registered by _dispatch (line 58 has run for j).
Registered(j) ==
    /\ fut[j] \in { "queued", "running", "finished" }
    /\ ~(thr["D"].job = j /\ thr["D"].pc = "set")

\* Futures handed to the pool and not finished yet.
InFlight == { j \in Jobs : fut[j] \in { "queued", "running" } }

\* Job j's worker has finished and no thread is still inside _dispatch(j) or
\* inside one of j's done-callbacks.
Settled(j) ==
    /\ fut[j] = "finished"
    /\ \A t \in Threads : ~(thr[t].job = j /\ thr[t].pc \in InDispatch \cup InCallback)

\* No job in flight, no continuation pending, no thread inside an operation.
Quiescent ==
    /\ thr["D"].pc \in { "loop", "closing", "returned" }
    /\ thr["M"].pc = "idle"
    /\ InFlight = {}

\* C1: in every reachable state the available-worker counter is within
\* [0, max_workers].
C1_WorkersInRange ==
    /\ 0 <= nb_available_workers
    /\ nb_available_workers <= max_workers

C3_ReleaseBeforeUpdate ==
    \A j \in Jobs : popped[j] => released[j]

\* C4: no counter update is lost: whenever nothing is in flight or pending (and
\* no submission failed), the counter is back at max_workers and the table is empty.
C4_NoLostUpdate ==
    (Quiescent /\ \A j \in Jobs : fut[j] # "rejected")
        => /\ nb_available_workers = max_workers
           /\ dispatched_processes = {}

C6_CompletionOutcome ==
    \A j \in Jobs :
        Settled(j) =>
            /\ released[j]
            /\ popped[j]
            /\ j \notin dispatched_processes
            /\ result[j] = NoError => status[j] = "COMPLETED" /\ errors[j] = << >>
            /\ result[j] # NoError => status[j] = "FAILED" /\ errors[j] = result[j]

\* C6 witness: a failed job whose worker finished before _dispatch returned.
C6_Witness ==
    \E j \in Jobs : Settled(j) /\ early[j] /\ status[j] = "FAILED"

\* C7: after a failed submission the job has no handle and no callback, and
\* the counter is not below the value _dispatch found on entry.
C7_SubmitFailureIsLocal ==
    \A j \in Jobs :
        (fut[j] = "rejected" /\ thr["D"].job = j /\ thr["D"].pc = "loop")
            => /\ j \notin dispatched_processes
               /\ done_callbacks[j] = << >>
               /\ nb_available_workers >= thr["D"].tmp

\* Only _dispatch calls that returned have happened so far.
OnlyDispatches ==
    /\ thr["D"].pc = "loop"
    /\ thr["M"].job = 0
    /\ \A j \in Jobs : fut[j] \in { "none", "queued", "running" }
    /\ withdrawn = {}

\* C8: after N dispatches and no completion, the counter is max_workers - N
\* and the table holds exactly the N dispatched job ids.
C8_AfterNDispatches ==
    OnlyDispatches =>
        LET N == jobs_to_run - 1 IN
            /\ N <= max_workers
            /\ nb_available_workers = max_workers - N
            /\ dispatched_processes = 1..N

\* C8 witness: two dispatches on a fresh dispatcher with two workers.
C8_Witness ==
    /\ OnlyDispatches
    /\ jobs_to_run - 1 = 2
    /\ max_workers = 2

\* C9: a step of job j's completion (the future finishing, or a step of one of
\* its two continuations) leaves the status, errors, future and handle of every
\* other job as they were, does not stop the driver, and the slot release
\* leaves can_execute() true.
C9_CompletionIsLocal ==
    [][\A t \in Threads :
          ((thr[t].pc \in InCallback \/ thr'[t].pc \in InCallback) /\ thr'[t] # thr[t])
              => LET j == thr'[t].job IN
                    /\ \A k \in Jobs \ { j } :
                          /\ status'[k] = status[k]
                          /\ errors'[k] = errors[k]
                          /\ fut'[k] = fut[k]
                          /\ (k \in dispatched_processes' <=> k \in dispatched_processes)
                    /\ stop_flag' = stop_flag
                    /\ jobs_to_run' = jobs_to_run
                    /\ (t = "M" => thr'["D"] = thr["D"])
                    /\ (thr[t].pc = "rel_store" => nb_available_workers' > 0)]_vars

\* C9 witness: a job has failed, a sibling dispatched before the failure is
\* still in the table, untouched, and the driver is dispatching a further job.
C9_Witness ==
    \E j, k, l \in Jobs :
        /\ status[j] = "FAILED" /\ Settled(j)
        /\ k # j /\ k \in dispatched_processes /\ k \in InFlight /\ status[k] = "PENDING"
        /\ l > j /\ l > k /\ thr["D"].job = l /\ thr["D"].pc = "submit"

\* C10: after the shutdown signal is seen no job is admitted, and when run()
\* has returned no job is queued or running, both continuations of every
\* dispatched job have run and the table is empty.
C10_ShutdownDrains ==
    [][/\ thr["D"].pc \in { "closing", "returned" } => jobs_to_run' = jobs_to_run
       /\ thr'["D"].pc = "returned" =>
            /\ InFlight' = {}
            /\ dispatched_processes' = {}
            /\ \A j \in Jobs :
                  fut'[j] = "finished" =>
                      released'[j] /\ popped'[j] /\ status'[j] \in Terminal]_vars

\* C10 witness: run() has returned with finished jobs behind it and ready jobs
\* left in the queue.
C10_Witness ==
    /\ thr["D"].pc = "returned"
    /\ jobs_to_run <= NJobs
    /\ \E j, k \in Jobs : j # k /\ status[j] = "COMPLETED" /\ status[k] = "FAILED"

----
\* The dispatcher at work: no shutdown signal and no failing submission.
\* The threads are scheduled fairly and every started worker finishes.
Progress ==
    \/ DriverTake
    \/ DispatchLoad
    \/ DispatchStore
    \/ SubmitOk
    \/ SetDispatched
    \/ AddReleaseCallback
    \/ AddUpdateCallback
    \/ \E j \in Jobs : WorkerStart(j)
    \/ \E j \in Jobs, r \in Results : Finish(j, r)
    \/ \E t \in Threads : ReleaseLoad(t)
    \/ \E t \in Threads : ReleaseStore(t)
    \/ \E t \in Threads : UpdatePop(t)
    \/ \E t \in Threads : UpdateStatus(t)

LiveNext ==
    \/ Progress
    \/ \E j \in Jobs : RemoveDispatchedJob(j)

LiveSpec == Init /\ [][LiveNext]_vars /\ WF_vars(Progress)

----
\* The global configuration is changed while the dispatcher is at work.
ConfigChange ==
    /\ applied_config < MaxConfigChanges
    /\ applied_config' = applied_config + 1
    /\ UNCHANGED << pvars, config_as_string, worker_config, max_workers, nb_available_workers,
                    dispatched_processes, fut, result, done_callbacks, status, errors, thr,
                    jobs_to_run, stop_flag, released, popped, withdrawn, early >>

ConfigNext ==
    \/ Progress
    \/ ConfigChange

ConfigSpec == Init /\ [][ConfigNext]_vars

\* C11: with one worker the ready jobs are never in flight together, and with
\* any capacity every ready job is eventually dispatched and reaches a terminal
\* status, provided each worker finishes.
C11_EveryJobTerminates ==
    /\ [](max_workers = 1 => Cardinality(InFlight) <= 1)
    /\ <>(\A j \in Jobs : status[j] \in Terminal)

\* C11 witness: with one worker, every job has been dispatched and completed.
C11_Witness ==
    /\ max_workers = 1
    /\ \A j \in Jobs : Settled(j) /\ status[j] = "COMPLETED"

\* C12: a job's worker runs with the configuration serialized when the job was
\* dispatched; a later change of the global configuration changes neither the
\* string submitted with an in-flight job nor the configuration its worker has.
C12_ConfigSnapshot ==
    [][\A j \in Jobs :
          /\ (fut[j] = "none" /\ fut'[j] = "queued")
                => config_as_string'[j] = Serialize(applied_config)
          /\ (fut[j] \in { "queued", "running" } /\ fut'[j] \in { "queued", "running" })
                => config_as_string'[j] = config_as_string[j]
          /\ (fut[j] = "queued" /\ fut'[j] = "running")
                => worker_config'[j] = << Deserialize(config_as_string[j]) >>
          /\ (fut[j] = "running" /\ fut'[j] = "running")
                => worker_config'[j] = worker_config[j]]_vars

\* C12 witness: the global configuration changed after a job was dispatched and
\* the running job still has the configuration of its dispatch.
C12_Witness ==
    \E j \in Jobs :
        /\ fut[j] = "running"
        /\ config_as_string[j] = Serialize(0)
        /\ worker_config[j] = << 0 >>
        /\ applied_config = 1

----
\* The Pipeline's properties are stated against the graph written down from
\* the tasks' inputs and outputs and against reachability along its edges.
AllNodes == DataNodes \cup ConfigIds

ExpectedEdges(tdict) ==
    UNION { { << d, c >> : d \in tdict[c].input } \cup { << c, d >> : d \in tdict[c].output } :
            c \in DOMAIN tdict }

ExpectedNodes(tdict) ==
    DOMAIN tdict \cup UNION { tdict[c].input \cup tdict[c].output : c \in DOMAIN tdict }

RECURSIVE Closure(_)
Closure(R) ==
    LET R2 == R \cup { << p[1][1], p[2][2] >> : p \in { q \in R \X R : q[1][2] = q[2][1] } }
    IN IF R2 = R THEN R ELSE Closure(R2)

HasCycle(tdict) == \E n \in AllNodes : << n, n >> \in Closure(ExpectedEdges(tdict))

\* Task b reads a DataNode that task a writes.
DependsOn(tdict, b, a) == tdict[a].output \cap tdict[b].input # {}

\* The generations of the returned result that hold the task with config_id c.
GenerationsOf(c) == { k \in DOMAIN p_sorted.gens : c \in p_sorted.gens[k] }

\* C13: a task set that forms a valid alternating DAG (no cycle, every node
\* without a predecessor is a DataNode) is flagged consistent, and a task set
\* with a cycle is flagged inconsistent.
C13_FlagOfDagAndCycle ==
    LET sources == { n \in ExpectedNodes(p_tasks) :
                       ~ \E e \in ExpectedEdges(p_tasks) : e[2] = n }
    IN /\ (~HasCycle(p_tasks) /\ sources \subseteq DataNodes) => is_consistent
       /\ HasCycle(p_tasks) => ~is_consistent

\* C13 witness: a chain of two tasks flagged consistent.
C13_Witness ==
    /\ is_consistent
    /\ \E a, b \in DOMAIN p_tasks : a # b /\ DependsOn(p_tasks, b, a)

\* C14: in the result of get_sorted_tasks(), a task that reads an output of
\* another task is in a strictly later generation than that task.
C14_GenerationsOrdered ==
    p_sorted.state = "returned" =>
        \A a, b \in DOMAIN p_tasks :
            DependsOn(p_tasks, b, a) =>
                /\ \E i \in GenerationsOf(a), k \in GenerationsOf(b) : i < k
                /\ \A i \in GenerationsOf(a), k \in GenerationsOf(b) : i < k

\* C14 witness: two dependent tasks returned in two generations.
C14_Witness ==
    /\ p_sorted.state = "returned"
    /\ Len(p_sorted.gens) = 2
    /\ \E a, b \in DOMAIN p_tasks : DependsOn(p_tasks, b, a)

\* C15 (as stated): every task given to the pipeline is in exactly one of the
\* returned generations.
C15_EveryGivenTaskOnce ==
    p_sorted.state = "returned" =>
        \A i \in DOMAIN p_given :
            /\ Cardinality(GenerationsOf(p_given[i].config_id)) = 1
            /\ p_tasks[p_given[i].config_id] =
                  [input |-> p_given[i].input, output |-> p_given[i].output]

\* C15 (amended): get_sorted_tasks() returns exactly when the graph has no
\* cycle, and then every task the pipeline holds (for each config_id the last
\* task given with it) is in exactly one of the returned generations.
C15_EveryHeldTaskOnce ==
    /\ p_sorted.state = "raised" => HasCycle(p_tasks)
    /\ p_sorted.state = "returned" =>
          /\ ~HasCycle(p_tasks)
          /\ \A c \in DOMAIN p_tasks : Cardinality(GenerationsOf(c)) = 1
          /\ \A i \in DOMAIN p_given :
                (\A k \in DOMAIN p_given : k > i => p_given[k].config_id # p_given[i].config_id)
                    => p_tasks[p_given[i].config_id] =
                          [input |-> p_given[i].input, output |-> p_given[i].output]

\* C15 witness: two tasks given with the same config_id, the later one returned.
C15_Witness ==
    /\ p_sorted.state = "returned"
    /\ Len(p_given) = 2
    /\ p_given[1].config_id = p_given[2].config_id
    /\ p_given[1].input # p_given[2].input
    /\ GenerationsOf(p_given[2].config_id) # {}

\* C16: no DataNode is in a generation that get_sorted_tasks() returns.
C16_OnlyTasksReturned ==
    p_sorted.state = "returned" =>
        \A k \in DOMAIN p_sorted.gens : \A node \in p_sorted.gens[k] : IsTask(node)

\* C17: the graph built has exactly an edge from each input DataNode to its
\* task and from each task to each of its output DataNodes, a task with
\* neither is a node without edges, and every edge joins a DataNode and a Task.
C17_GraphEdges ==
    LET dag == build_dag(p_tasks)
    IN /\ dag.edges = ExpectedEdges(p_tasks)
       /\ dag.nodes = ExpectedNodes(p_tasks)
       /\ \A e \in dag.edges : IsDataNode(e[1]) # IsDataNode(e[2])
       /\ \A e \in dag.edges : IsTask(e[1]) # IsTask(e[2])

\* C17 witness: a task with input and output next to a task with neither.
C17_Witness ==
    \E a, b \in DOMAIN p_tasks :
        /\ p_tasks[a].input # {} /\ p_tasks[a].output # {}
        /\ p_tasks[b].input = {} /\ p_tasks[b].output = {}
        /\ b \in build_dag(p_tasks).nodes

\* C18: the flag is true exactly when the graph has no cycle and every task
\* has at least one input DataNode; without any task it is true.
C18_FlagCharacterised ==
    /\ is_consistent <=>
          (~HasCycle(p_tasks) /\ \A c \in DOMAIN p_tasks : p_tasks[c].input # {})
    /\ DOMAIN p_tasks = {} => is_consistent

\* C18 witness: a task with outputs only makes an acyclic pipeline inconsistent.
C18_Witness ==
    /\ ~is_consistent
    /\ ~HasCycle(p_tasks)
    /\ \E c \in DOMAIN p_tasks : p_tasks[c].input = {} /\ p_tasks[c].output # {}

\* C20: no step after construction changes is_consistent, the tasks setter
\* included, while get_sorted_tasks() works on the tasks set last (it raises
\* exactly when their graph has a cycle).
C20_FlagKeptBySetter ==
    [][/\ is_consistent' = is_consistent
       /\ p_sorted'.state = "raised" => HasCycle(p_tasks')
       /\ p_sorted'.state = "returned" => ~HasCycle(p_tasks')]_vars

\* C20 witness: the flag says consistent while the tasks set last have a cycle
\* and get_sorted_tasks() has raised on it.
C20_Witness ==
    /\ is_consistent
    /\ HasCycle(p_tasks)
    /\ p_given # << >>
    /\ p_sorted.state = "raised"

\* C19: _remove_dispatched_job takes the given job's entry out of the table
\* and changes nothing else; for an id without entry it changes nothing; the
\* removed job's completion still releases the slot, once, and its pop of the
\* absent entry leaves the table as it is and goes on to the status update.
C19_RemoveIsLocal ==
    [][/\ (thr' = thr /\ dispatched_processes' # dispatched_processes)
            => /\ \E j \in dispatched_processes :
                     dispatched_processes' = dispatched_processes \ { j }
               /\ nb_available_workers' = nb_available_workers
               /\ << fut, result, done_callbacks, status, errors, jobs_to_run, stop_flag >>' =
                     << fut, result, done_callbacks, status, errors, jobs_to_run, stop_flag >>
       /\ \A j \in Jobs \ dispatched_processes :
              pop_dispatched_process(dispatched_processes, j) = dispatched_processes
       /\ \A t \in Threads :
              LET j == thr[t].job IN
                 /\ (thr[t].pc = "rel_store" /\ thr'[t] # thr[t])
                        => ~released[j] /\ released'[j]
                 /\ (thr[t].pc = "upd_pop" /\ thr'[t] # thr[t] /\ j \in withdrawn)
                        => /\ released[j] \/ thr'[IF t = "D" THEN "M" ELSE "D"].job = j
                           /\ dispatched_processes' = dispatched_processes
                           /\ thr'[t].pc = "upd_status"]_vars

\* C19 witness: a handle was removed while its job was in flight, the job has
\* finished, its slot is released and its completion is about to pop the
\* absent entry.
C19_Witness ==
    \E t \in Threads :
        /\ thr[t].pc = "upd_pop"
        /\ thr[t].job \in withdrawn
        /\ released[thr[t].job]
        /\ \E k \in dispatched_processes : k # thr[t].job

====
